---- MODULE Spec2Model ----
(***************************************************************************)
(* The account ledger and the leaderboard of app.py, as a state machine    *)
(* over the three Firestore collections the handlers use: "users",         *)
(* "pizza_history" and "leaderboard".                                      *)
(*                                                                         *)
(* Every store call of a handler (get, set, update, delete, add, stream)   *)
(* is one atomic step.  The handlers are coroutines that never await, so   *)
(* one worker process runs a request to its end before it takes the next   *)
(* (SeqSpec, and SeqFailSpec where a store call may raise); the store is   *)
(* shared, and the store calls of requests handled by other workers and    *)
(* other instances of the service run between two store calls of one       *)
(* request (Spec).  No handler uses a transaction or catches an exception. *)
(*                                                                         *)
(* The arrival of a request is folded into its first store call.  The      *)
(* response is a step of its own, so that the outcome of a finished        *)
(* request is part of the state.  A first store call that raises changes   *)
(* nothing and is left out.                                                *)
(***************************************************************************)
EXTENDS Integers, Sequences, FiniteSets, TLC

VARIABLES
    users,        \* collection "users": document id -> document
    history,      \* collection "pizza_history", in insertion order
    leaderboard,  \* collection "leaderboard": document id -> entry
    usedIds,      \* document ids of "users" handed out so far
    now,          \* the clock read by datetime.now()
    req,          \* per worker: the request it is handling
    nreq          \* requests accepted so far

vars == <<users, history, leaderboard, usedIds, now, req, nreq>>

----------------------------------------------------------------------------
(* Bounds of the model *)

MaxIds == 2
NumProcs == 2
MaxRequests == 2
MaxSeqRequests == 4

(* Constants of the program *)

InitialCoins == 500
SlicePrice == 10
LeaderboardLimit == 10

Ids == 1..MaxIds
Procs == 1..NumProcs

(* class User: the request body of create_user and update_user *)
User ==
    { [name |-> "ann", age |-> 30, gender |-> "f"],
      [name |-> "bob", age |-> 41, gender |-> "m"] }

Min(a, b) == IF a <= b THEN a ELSE b

----------------------------------------------------------------------------
(* Documents *)

\* NewUserData with the values of coins and pizzaSlices exchanged
NewUserDataSwapped(user) ==
    [name |-> user.name, age |-> user.age, gender |-> user.gender,
     coins |-> 0, pizzasEaten |-> 0, pizzaSlices |-> InitialCoins]

\* user_data of create_user: user.dict() plus the three economy fields
NewUserData(user) ==
    [name |-> user.name, age |-> user.age, gender |-> user.gender,
     coins |-> InitialCoins, pizzasEaten |-> 0, pizzaSlices |-> 0]

UserDoc(user, c, s, e) ==
    [name |-> user.name, age |-> user.age, gender |-> user.gender,
     coins |-> c, pizzasEaten |-> e, pizzaSlices |-> s]

\* the value of a handler's local user_data before it has read anything
NoData ==
    [name |-> "", age |-> 0, gender |-> "",
     coins |-> 0, pizzasEaten |-> 0, pizzaSlices |-> 0]

NoUser == [name |-> "", age |-> 0, gender |-> ""]

\* the document update_leaderboard writes for one user
LeaderboardDoc(id, user_data, rank) ==
    [userId |-> id, name |-> user_data.name,
     pizzasEaten |-> user_data.pizzasEaten, rank |-> rank]

\* the document log_pizza adds to "pizza_history"
HistoryDoc(id, t) == [userId |-> id, timestamp |-> t]

----------------------------------------------------------------------------
(* The store *)

\* DocumentReference.set: create or replace
DocSet(coll, id, doc) ==
    [i \in DOMAIN coll \cup {id} |-> IF i = id THEN doc ELSE coll[i]]

\* DocumentReference.delete; no error when the document is already gone
DocDelete(coll, id) == [i \in DOMAIN coll \ {id} |-> coll[i]]

\* Precedes with the direction of the query forgotten (ascending)
PrecedesAscending(us, a, b) ==
    \/ us[a].pizzasEaten < us[b].pizzasEaten
    \/ us[a].pizzasEaten = us[b].pizzasEaten /\ a < b

\* order_by("pizzasEaten", direction=DESCENDING): descending by the field,
\* documents with equal values in descending order of document id
Precedes(us, a, b) ==
    \/ us[a].pizzasEaten > us[b].pizzasEaten
    \/ us[a].pizzasEaten = us[b].pizzasEaten /\ a > b

RECURSIVE OrderByEaten(_, _)
OrderByEaten(us, S) ==
    IF S = {} THEN <<>>
    ELSE LET m == CHOOSE a \in S : \A b \in S \ {a} : Precedes(us, a, b)
         IN  <<[id |-> m, data |-> us[m]]>> \o OrderByEaten(us, S \ {m})

\* db.collection("users").order_by(...).stream(): the snapshots of all users
QueryUsersByEaten(us) == OrderByEaten(us, DOMAIN us)

\* update_leaderboard run to completion on a fixed set of users
RECURSIVE WriteEntries(_, _, _)
WriteEntries(lb, stream, rank) ==
    IF stream = <<>> THEN lb
    ELSE WriteEntries(
             DocSet(lb, Head(stream).id,
                    LeaderboardDoc(Head(stream).id, Head(stream).data, rank)),
             Tail(stream), rank + 1)

----------------------------------------------------------------------------
(* Requests *)

Idle ==
    [op |-> "idle", pc |-> "idle", user_id |-> 0, user |-> NoUser,
     user_data |-> NoData, stream |-> <<>>, rank |-> 0, result |-> "none"]

Running(p) == req[p].op # "idle" /\ req[p].result = "none"

\* a request is accepted by the first worker that is free
Free(p) ==
    /\ req[p].op = "idle"
    /\ \A q \in Procs : q < p => req[q].op # "idle"

Accept(p) == Free(p) /\ nreq' = nreq + 1

Become(p, r) == req' = [req EXCEPT ![p] = r]


\* DocumentReference.update: replaces the named fields, keeps the others.
\* The store refuses the update of a document that does not exist: the
\* handlers' update steps then end the request in an error, nothing written.
DocUpdate(coll, id, fields) ==
    [coll EXCEPT ![id] =
        [f \in DOMAIN @ |-> IF f \in DOMAIN fields THEN fields[f] ELSE @[f]]]

Finish(r, res) == [r EXCEPT !.pc = "return", !.result = res]

----------------------------------------------------------------------------
(* create_user *)

create_user(p) ==
    \E user \in User, id \in Ids \ usedIds :
        /\ Accept(p)
        /\ users' = DocSet(users, id, NewUserData(user))
        /\ usedIds' = usedIds \cup {id}
        /\ Become(p, [Idle EXCEPT !.op = "create_user", !.pc = "return",
                                  !.user_id = id, !.user = user,
                                  !.user_data = NewUserData(user),
                                  !.result = "ok"])
        /\ UNCHANGED <<history, leaderboard, now>>

----------------------------------------------------------------------------
(* update_user *)

\* the fields update_user writes
UpdateUserFields(user) ==
    [name |-> user.name, age |-> user.age, gender |-> user.gender]

UpdateUserGet(p) ==
    \E id \in Ids, user \in User :
        /\ Accept(p)
        /\ LET r == [Idle EXCEPT !.op = "update_user", !.user_id = id,
                                 !.user = user]
           IN  IF id \in DOMAIN users
               THEN Become(p, [r EXCEPT !.pc = "update"])
               ELSE Become(p, Finish(r, "NotFound"))
        /\ UNCHANGED <<users, history, leaderboard, usedIds, now>>

UpdateUserUpdate(p) ==
    /\ Running(p) /\ req[p].op = "update_user" /\ req[p].pc = "update"
    /\ IF req[p].user_id \in DOMAIN users
       THEN /\ users' = DocUpdate(users, req[p].user_id,
                                  UpdateUserFields(req[p].user))
            /\ Become(p, Finish(req[p], "ok"))
       ELSE /\ users' = users
            /\ Become(p, [req[p] EXCEPT !.result = "StoreError"])
    /\ UNCHANGED <<history, leaderboard, usedIds, now, nreq>>

----------------------------------------------------------------------------
(* delete_user *)

DeleteUserGet(p) ==
    \E id \in Ids :
        /\ Accept(p)
        /\ LET r == [Idle EXCEPT !.op = "delete_user", !.user_id = id]
           IN  IF id \in DOMAIN users
               THEN Become(p, [r EXCEPT !.pc = "delete"])
               ELSE Become(p, Finish(r, "NotFound"))
        /\ UNCHANGED <<users, history, leaderboard, usedIds, now>>

\* DeleteUserDelete with the deletion cascading to the leaderboard entry
DeleteUserDeleteCascade(p) ==
    /\ Running(p) /\ req[p].op = "delete_user" /\ req[p].pc = "delete"
    /\ users' = DocDelete(users, req[p].user_id)
    /\ leaderboard' = DocDelete(leaderboard, req[p].user_id)
    /\ Become(p, Finish(req[p], "ok"))
    /\ UNCHANGED <<history, usedIds, now, nreq>>

DeleteUserDelete(p) ==
    /\ Running(p) /\ req[p].op = "delete_user" /\ req[p].pc = "delete"
    /\ users' = DocDelete(users, req[p].user_id)
    /\ Become(p, Finish(req[p], "ok"))
    /\ UNCHANGED <<history, leaderboard, usedIds, now, nreq>>

----------------------------------------------------------------------------
(* buy_pizza *)

\* the test of line 100
CanBuy(user_data) == ~(user_data.coins < SlicePrice)

\* BuyPizzaUpdate with the update written as a decrement of the stored
\* balance (firestore.Increment) after the test on the snapshot
BuyPizzaUpdateIncrement(p) ==
    /\ Running(p) /\ req[p].op = "buy_pizza" /\ req[p].pc = "update"
    /\ IF req[p].user_id \in DOMAIN users
       THEN /\ users' = [users EXCEPT
                           ![req[p].user_id].coins = @ - SlicePrice,
                           ![req[p].user_id].pizzaSlices = @ + 1]
            /\ Become(p, Finish(req[p], "ok"))
       ELSE /\ users' = users
            /\ Become(p, [req[p] EXCEPT !.result = "StoreError"])
    /\ UNCHANGED <<history, leaderboard, usedIds, now, nreq>>

\* BuyPizzaUpdate writing with set: the document is written whether or not
\* it still exists
BuyPizzaUpdateSet(p) ==
    /\ Running(p) /\ req[p].op = "buy_pizza" /\ req[p].pc = "update"
    /\ users' = DocSet(users, req[p].user_id,
                       [req[p].user_data EXCEPT
                           !.coins = @ - SlicePrice, !.pizzaSlices = @ + 1])
    /\ Become(p, Finish(req[p], "ok"))
    /\ UNCHANGED <<history, leaderboard, usedIds, now, nreq>>

\* BuyPizzaFields with the slice forgotten
BuyPizzaFieldsCoinsOnly(user_data) ==
    [coins |-> user_data.coins - SlicePrice]

\* BuyPizzaFields writing back the whole document it read
BuyPizzaFieldsWholeDoc(user_data) ==
    [user_data EXCEPT !.coins = @ - SlicePrice, !.pizzaSlices = @ + 1]

\* the fields buy_pizza writes, computed from the snapshot it read
BuyPizzaFields(user_data) ==
    [coins |-> user_data.coins - SlicePrice,
     pizzaSlices |-> user_data.pizzaSlices + 1]

BuyPizzaGet(p) ==
    \E id \in Ids :
        /\ Accept(p)
        /\ LET r == [Idle EXCEPT !.op = "buy_pizza", !.user_id = id]
           IN  IF id \notin DOMAIN users
               THEN Become(p, Finish(r, "NotFound"))
               ELSE IF ~CanBuy(users[id])
               THEN Become(p, Finish([r EXCEPT !.user_data = users[id]],
                                     "InsufficientFunds"))
               ELSE Become(p, [r EXCEPT !.user_data = users[id],
                                        !.pc = "update"])
        /\ UNCHANGED <<users, history, leaderboard, usedIds, now>>

BuyPizzaUpdate(p) ==
    /\ Running(p) /\ req[p].op = "buy_pizza" /\ req[p].pc = "update"
    /\ IF req[p].user_id \in DOMAIN users
       THEN /\ users' = DocUpdate(users, req[p].user_id,
                                  BuyPizzaFields(req[p].user_data))
            /\ Become(p, Finish(req[p], "ok"))
       ELSE /\ users' = users
            /\ Become(p, [req[p] EXCEPT !.result = "StoreError"])
    /\ UNCHANGED <<history, leaderboard, usedIds, now, nreq>>

----------------------------------------------------------------------------
(* log_pizza, with update_leaderboard inlined at its call *)

\* the test of line 118
CanLog(user_data) == ~(user_data.pizzaSlices < 1)

\* the fields log_pizza writes, computed from the snapshot it read
LogPizzaFields(user_data) ==
    [pizzaSlices |-> user_data.pizzaSlices - 1,
     pizzasEaten |-> user_data.pizzasEaten + 1]

LogPizzaGet(p) ==
    \E id \in Ids :
        /\ Accept(p)
        /\ LET r == [Idle EXCEPT !.op = "log_pizza", !.user_id = id]
           IN  IF id \notin DOMAIN users
               THEN Become(p, Finish(r, "NotFound"))
               ELSE IF ~CanLog(users[id])
               THEN Become(p, Finish([r EXCEPT !.user_data = users[id]],
                                     "NoInventory"))
               ELSE Become(p, [r EXCEPT !.user_data = users[id],
                                        !.pc = "update"])
        /\ UNCHANGED <<users, history, leaderboard, usedIds, now>>

\* LogPizzaUpdate with the history record left for after the rebuild: the
\* request goes on to update_leaderboard without it
LogPizzaUpdateNoAdd(p) ==
    /\ Running(p) /\ req[p].op = "log_pizza" /\ req[p].pc = "update"
    /\ IF req[p].user_id \in DOMAIN users
       THEN /\ users' = DocUpdate(users, req[p].user_id,
                                  LogPizzaFields(req[p].user_data))
            /\ Become(p, [req[p] EXCEPT !.pc = "stream"])
       ELSE /\ users' = users
            /\ Become(p, [req[p] EXCEPT !.result = "StoreError"])
    /\ UNCHANGED <<history, leaderboard, usedIds, now, nreq>>

LogPizzaUpdate(p) ==
    /\ Running(p) /\ req[p].op = "log_pizza" /\ req[p].pc = "update"
    /\ IF req[p].user_id \in DOMAIN users
       THEN /\ users' = DocUpdate(users, req[p].user_id,
                                  LogPizzaFields(req[p].user_data))
            /\ Become(p, [req[p] EXCEPT !.pc = "add"])
       ELSE /\ users' = users
            /\ Become(p, [req[p] EXCEPT !.result = "StoreError"])
    /\ UNCHANGED <<history, leaderboard, usedIds, now, nreq>>

\* LogPizzaAdd writing the record under the user's id (document(userId).set)
\* instead of adding it: the user's earlier records are replaced
LogPizzaAddOverwrite(p) ==
    /\ Running(p) /\ req[p].op = "log_pizza" /\ req[p].pc = "add"
    /\ history' = Append(SelectSeq(history,
                                   LAMBDA h : h.userId # req[p].user_id),
                         HistoryDoc(req[p].user_id, now))
    /\ now' = now + 1
    /\ Become(p, [req[p] EXCEPT !.pc = "stream"])
    /\ UNCHANGED <<users, leaderboard, usedIds, nreq>>

LogPizzaAdd(p) ==
    /\ Running(p) /\ req[p].op = "log_pizza" /\ req[p].pc = "add"
    /\ history' = Append(history, HistoryDoc(req[p].user_id, now))
    /\ now' = now + 1
    /\ Become(p, [req[p] EXCEPT !.pc = "stream"])
    /\ UNCHANGED <<users, leaderboard, usedIds, nreq>>

\* UpdateLeaderboardStream with the rebuild left out of log_pizza
UpdateLeaderboardSkipped(p) ==
    /\ Running(p) /\ req[p].op = "log_pizza" /\ req[p].pc = "stream"
    /\ Become(p, Finish(req[p], "ok"))
    /\ UNCHANGED <<users, history, leaderboard, usedIds, now, nreq>>

\* update_leaderboard, line 148: the query; its result is what the loop walks
UpdateLeaderboardStream(p) ==
    /\ Running(p) /\ req[p].op = "log_pizza" /\ req[p].pc = "stream"
    /\ LET q == QueryUsersByEaten(users)
       IN  IF q = <<>>
           THEN Become(p, Finish(req[p], "ok"))
           ELSE Become(p, [req[p] EXCEPT !.stream = q, !.rank = 1,
                                         !.pc = "set"])
    /\ UNCHANGED <<users, history, leaderboard, usedIds, now, nreq>>

\* update_leaderboard, lines 151-158: one turn of the loop
UpdateLeaderboardSet(p) ==
    /\ Running(p) /\ req[p].op = "log_pizza" /\ req[p].pc = "set"
    /\ LET user == Head(req[p].stream)
       IN  /\ leaderboard' =
                 DocSet(leaderboard, user.id,
                        LeaderboardDoc(user.id, user.data, req[p].rank))
           /\ IF Tail(req[p].stream) = <<>>
              THEN Become(p, Finish([req[p] EXCEPT !.stream = <<>>], "ok"))
              ELSE Become(p, [req[p] EXCEPT !.stream = Tail(@),
                                            !.rank = @ + 1])
    /\ UNCHANGED <<users, history, usedIds, now, nreq>>

----------------------------------------------------------------------------
(* get_leaderboard: what the handler returns in the current state *)

get_leaderboard ==
    LET q == QueryUsersByEaten(users)
    IN  [i \in 1..Min(Len(q), LeaderboardLimit) |-> q[i].data]

----------------------------------------------------------------------------
(* The end of a request *)

\* the response is sent; the worker takes the next request
Respond(p) ==
    /\ req[p].result # "none"
    /\ Become(p, Idle)
    /\ UNCHANGED <<users, history, leaderboard, usedIds, now, nreq>>

\* what a store call that raises leaves behind: nothing is written, no
\* handler catches the exception, the request ends with an error
Raise(r) == [r EXCEPT !.result = "StoreError"]

\* Fail with a compensating write: the account is put back as it was read
FailRollback(p) ==
    /\ Running(p)
    /\ Become(p, Raise(req[p]))
    /\ users' = IF req[p].op = "log_pizza" /\ req[p].user_id \in DOMAIN users
                THEN [users EXCEPT ![req[p].user_id] = req[p].user_data]
                ELSE users
    /\ UNCHANGED <<history, leaderboard, usedIds, now, nreq>>

\* a store call after the first raises
Fail(p) ==
    /\ Running(p)
    /\ Become(p, Raise(req[p]))
    /\ UNCHANGED <<users, history, leaderboard, usedIds, now, nreq>>

----------------------------------------------------------------------------
(* Initial states: the empty store, and stores that sequences of requests  *)
(* on the empty store produce                                              *)

Ann == [name |-> "ann", age |-> 30, gender |-> "f"]
Bob == [name |-> "bob", age |-> 41, gender |-> "m"]

\* nothing has happened yet
EmptyStore ==
    [users |-> <<>>, history |-> <<>>, leaderboard |-> <<>>,
     usedIds |-> {}, now |-> 1]

\* create_user; 49 x buy_pizza
NearlyBroke ==
    [users |-> (1 :> UserDoc(Ann, 10, 49, 0)),
     history |-> <<>>, leaderboard |-> <<>>, usedIds |-> {1}, now |-> 1]

\* create 1; create 2; buy 1; buy 1; buy 2; log 1
TwoEaters ==
    LET us == (1 :> UserDoc(Ann, 480, 1, 1)) @@ (2 :> UserDoc(Bob, 490, 1, 0))
    IN  [users |-> us,
         history |-> <<HistoryDoc(1, 1)>>,
         leaderboard |-> WriteEntries(<<>>, QueryUsersByEaten(us), 1),
         usedIds |-> {1, 2}, now |-> 2]

Stores == {EmptyStore, NearlyBroke, TwoEaters}

Init ==
    /\ \E s \in Stores :
        /\ users = s.users
        /\ history = s.history
        /\ leaderboard = s.leaderboard
        /\ usedIds = s.usedIds
        /\ now = s.now
    /\ req = [p \in Procs |-> Idle]
    /\ nreq = 0

----------------------------------------------------------------------------
(* Requests handled concurrently *)

Open == nreq < MaxRequests

Next ==
    \E p \in Procs :
        \/ Open /\ create_user(p)
        \/ Open /\ UpdateUserGet(p)
        \/ UpdateUserUpdate(p)
        \/ Open /\ DeleteUserGet(p)
        \/ DeleteUserDelete(p)
        \/ Open /\ BuyPizzaGet(p)
        \/ BuyPizzaUpdate(p)
        \/ Open /\ LogPizzaGet(p)
        \/ LogPizzaUpdate(p)
        \/ LogPizzaAdd(p)
        \/ UpdateLeaderboardStream(p)
        \/ UpdateLeaderboardSet(p)
        \/ Respond(p)

Spec == Init /\ [][Next]_vars

(* The same with one more request, for the races that take three *)

MaxRaceRequests == 3

RaceOpen == nreq < MaxRaceRequests

RaceNext ==
    \E p \in Procs :
        \/ RaceOpen /\ create_user(p)
        \/ RaceOpen /\ UpdateUserGet(p)
        \/ UpdateUserUpdate(p)
        \/ RaceOpen /\ DeleteUserGet(p)
        \/ DeleteUserDelete(p)
        \/ RaceOpen /\ BuyPizzaGet(p)
        \/ BuyPizzaUpdate(p)
        \/ RaceOpen /\ LogPizzaGet(p)
        \/ LogPizzaUpdate(p)
        \/ LogPizzaAdd(p)
        \/ UpdateLeaderboardStream(p)
        \/ UpdateLeaderboardSet(p)
        \/ Respond(p)

RaceSpec == Init /\ [][RaceNext]_vars

(* Requests handled one at a time: a request is accepted when no other is  *)
(* being handled                                                           *)

Quiet == \A q \in Procs : req[q].op = "idle"

SeqOpen == Quiet /\ nreq < MaxSeqRequests

SeqStep(p) ==
    \/ SeqOpen /\ create_user(p)
    \/ SeqOpen /\ UpdateUserGet(p)
    \/ UpdateUserUpdate(p)
    \/ SeqOpen /\ DeleteUserGet(p)
    \/ DeleteUserDelete(p)
    \/ SeqOpen /\ BuyPizzaGet(p)
    \/ BuyPizzaUpdate(p)
    \/ SeqOpen /\ LogPizzaGet(p)
    \/ LogPizzaUpdate(p)
    \/ LogPizzaAdd(p)
    \/ UpdateLeaderboardStream(p)
    \/ UpdateLeaderboardSet(p)
    \/ Respond(p)

\* ... and no store call raises
SeqNext == \E p \in Procs : SeqStep(p)

SeqSpec == Init /\ [][SeqNext]_vars

\* ... and store calls may raise
SeqFailNext == \E p \in Procs : SeqStep(p) \/ Fail(p)

SeqFailSpec == Init /\ [][SeqFailNext]_vars

----------------------------------------------------------------------------
(* Properties *)

Done(p, op) == req[p].op = op /\ req[p].result # "none"

Ok(p, op) == req[p].op = op /\ req[p].result = "ok"

\* worker p takes a step of a request of kind op (its response excluded)
StepOf(p, op) == req'[p] # req[p] /\ req'[p].op = op

(* C1: in every reachable state, whatever the interleaving of the store    *)
(* calls of concurrent requests, every existing account has coins >= 0,    *)
(* pizzaSlices >= 0 and pizzasEaten >= 0.                                  *)
NonNegative ==
    \A id \in DOMAIN users :
        /\ users[id].coins >= 0
        /\ users[id].pizzaSlices >= 0
        /\ users[id].pizzasEaten >= 0

\* two purchases that both read the last 10 coins have both written
NonNegativeWitness ==
    \E p, q \in Procs :
        /\ p # q
        /\ Ok(p, "buy_pizza") /\ Ok(q, "buy_pizza")
        /\ req[p].user_id = req[q].user_id
        /\ req[p].user_data.coins = SlicePrice
        /\ req[q].user_data.coins = SlicePrice
        /\ req[p].user_id \in DOMAIN users
        /\ users[req[p].user_id].coins = 0

(* C2: Purchase is one atomic read-check-write per account: two            *)
(* purchases of the same account never both succeed on the same observed   *)
(* balance, so every successful purchase has its own decrement of 10 coins *)
(* and its own slice.                                                      *)
PurchaseAtomic ==
    \A p, q \in Procs :
        (/\ p # q
         /\ Ok(p, "buy_pizza") /\ Ok(q, "buy_pizza")
         /\ req[p].user_id = req[q].user_id)
        => req[p].user_data.coins # req[q].user_data.coins

(* C3: Purchase is all-or-nothing.  Requests being handled one at a time,  *)
(* every step of a purchase either is its successful write, which lowers   *)
(* the account's coins by exactly 10 and raises its pizzaSlices by exactly *)
(* 1 and changes nothing else, or changes no document at all; and the      *)
(* request ends NotFound exactly when the account is absent and            *)
(* InsufficientFunds exactly when it holds fewer than 10 coins.            *)
PurchaseStepAllOrNothing(p) ==
    LET id == req'[p].user_id
    IN  /\ history' = history /\ leaderboard' = leaderboard
        /\ IF req'[p].result = "ok"
           THEN /\ id \in DOMAIN users
                /\ users' = [users EXCEPT ![id].coins = @ - 10,
                                          ![id].pizzaSlices = @ + 1]
           ELSE /\ users' = users
                /\ req'[p].result \in {"none", "NotFound", "InsufficientFunds"}
                /\ req'[p].result = "NotFound" <=> id \notin DOMAIN users
                /\ req'[p].result = "InsufficientFunds"
                       <=> (id \in DOMAIN users /\ users[id].coins < 10)

PurchaseAllOrNothing ==
    [][\A p \in Procs : StepOf(p, "buy_pizza") => PurchaseStepAllOrNothing(p)]_vars

\* a purchase has succeeded: 10 coins fewer and one slice more than it read
PurchaseAllOrNothingWitness ==
    \E p \in Procs :
        /\ Ok(p, "buy_pizza")
        /\ users[req[p].user_id].coins = req[p].user_data.coins - 10
        /\ users[req[p].user_id].pizzaSlices = req[p].user_data.pizzaSlices + 1

(* C4: Consume is all-or-nothing.  Requests being handled one at a time,   *)
(* a finished log_pizza either succeeded, and then the account holds one   *)
(* slice fewer and one pizza eaten more than the request read and one more *)
(* history record than before, or it did not (account absent, no slice, a  *)
(* store call that raised), and then the account is as the request read it *)
(* and has no new history record.  (The records of an account before the   *)
(* request are as many as its pizzasEaten before it.)                      *)
HistoryOf(id) == {i \in DOMAIN history : history[i].userId = id}

ConsumeAllOrNothing ==
    \A p \in Procs :
        Done(p, "log_pizza") =>
            LET id == req[p].user_id
                d  == req[p].user_data
            IN  IF req[p].result = "ok"
                THEN /\ id \in DOMAIN users
                     /\ users[id] = [d EXCEPT !.pizzaSlices = @ - 1,
                                              !.pizzasEaten = @ + 1]
                     /\ Cardinality(HistoryOf(id)) = d.pizzasEaten + 1
                ELSE id \in DOMAIN users =>
                     /\ users[id] = d
                     /\ Cardinality(HistoryOf(id)) = d.pizzasEaten

(* C5: after a successful rebuild (a log_pizza that returned success,      *)
(* requests being handled one at a time) the leaderboard entries of the N  *)
(* live accounts carry exactly the ranks 1..N, each once, and an entry     *)
(* with more pizzasEaten has the smaller rank.                             *)
RebuildRanks ==
    \A p \in Procs :
        Ok(p, "log_pizza") =>
            LET live == DOMAIN users
            IN  /\ live \subseteq DOMAIN leaderboard
                /\ {leaderboard[i].rank : i \in live} = 1..Cardinality(live)
                /\ \A i, j \in live :
                       leaderboard[i].pizzasEaten > leaderboard[j].pizzasEaten
                           => leaderboard[i].rank < leaderboard[j].rank

\* a rebuild over two live accounts with different counters is done: the
\* one that has eaten more is first, the other second
RebuildRanksWitness ==
    \E p \in Procs, i, j \in DOMAIN users :
        /\ Ok(p, "log_pizza")
        /\ DOMAIN users = {i, j}
        /\ users[i].pizzasEaten > users[j].pizzasEaten
        /\ leaderboard[i].rank = 1
        /\ leaderboard[j].rank = 2

(* C6: GetTop is served from the materialized leaderboard entries: every   *)
(* entry it returns is (by name and pizzasEaten) an entry of the           *)
(* "leaderboard" collection, and a step of CreateAccount, UpdateProfile,   *)
(* DeleteAccount or Purchase, none of which rebuilds, leaves its result    *)
(* unchanged.                                                              *)
Materialized(g) ==
    \A i \in DOMAIN g :
        \E k \in DOMAIN leaderboard :
            /\ leaderboard[k].name = g[i].name
            /\ leaderboard[k].pizzasEaten = g[i].pizzasEaten

NoRebuildStep ==
    \E p \in Procs :
        \E op \in {"create_user", "update_user", "delete_user", "buy_pizza"} :
            StepOf(p, op)

GetTopFromMaterialized ==
    [][/\ Materialized(get_leaderboard)
       /\ NoRebuildStep => get_leaderboard' = get_leaderboard]_vars

(* C7: GetTop returns at most 10 entries, in ascending order of rank, and  *)
(* they are (by name and pizzasEaten) a prefix of the materialized ranking:*)
(* of the entries of the "leaderboard" collection in order of rank.        *)
Rankings ==
    LET n == Cardinality(DOMAIN leaderboard)
    IN  {s \in [1..n -> DOMAIN leaderboard] :
            /\ \A i, j \in 1..n : i # j => s[i] # s[j]
            /\ \A i, j \in 1..n :
                   i < j => leaderboard[s[i]].rank <= leaderboard[s[j]].rank}

GetTopIsRankingPrefix ==
    LET g == get_leaderboard
    IN  /\ Len(g) <= LeaderboardLimit
        /\ \E s \in Rankings :
               /\ Len(g) <= Len(s)
               /\ \A i \in DOMAIN g :
                      /\ leaderboard[s[i]].name = g[i].name
                      /\ leaderboard[s[i]].pizzasEaten = g[i].pizzasEaten

(* C8: UpdateProfile replaces exactly name, age and gender of its account  *)
(* and leaves coins, pizzaSlices and pizzasEaten of that account and every *)
(* field of every other account unchanged, whatever store calls of         *)
(* concurrent requests run between its read and its write; no step of a    *)
(* Purchase or a Consume changes name, age or gender of an account; and on *)
(* an absent account UpdateProfile ends NotFound and changes nothing.      *)
ProfileOf(d) == [name |-> d.name, age |-> d.age, gender |-> d.gender]

EconomyOf(d) ==
    [coins |-> d.coins, pizzaSlices |-> d.pizzaSlices,
     pizzasEaten |-> d.pizzasEaten]

UpdateProfileStep(p) ==
    LET id == req'[p].user_id
    IN  /\ DOMAIN users' = DOMAIN users
        /\ \A i \in DOMAIN users :
               /\ EconomyOf(users'[i]) = EconomyOf(users[i])
               /\ i # id => users'[i] = users[i]
        /\ IF req'[p].result = "ok"
           THEN /\ id \in DOMAIN users
                /\ ProfileOf(users'[id]) = req'[p].user
           ELSE users' = users
        /\ req[p].op = "idle" =>
               (req'[p].result = "NotFound" <=> id \notin DOMAIN users)
        /\ history' = history /\ leaderboard' = leaderboard

LedgerStep(p) ==
    \A i \in DOMAIN users \cap DOMAIN users' :
        ProfileOf(users'[i]) = ProfileOf(users[i])

UpdateProfileFrame ==
    [][\A p \in Procs :
          /\ StepOf(p, "update_user") => UpdateProfileStep(p)
          /\ StepOf(p, "buy_pizza") \/ StepOf(p, "log_pizza") => LedgerStep(p)
      ]_vars

\* a purchase and a profile update of the same account have interleaved
\* and both succeeded: the account has the new profile, which is not the
\* one the purchase read, and the coins and slices the purchase wrote
UpdateProfileFrameWitness ==
    \E p, q \in Procs :
        /\ Ok(p, "buy_pizza") /\ Ok(q, "update_user")
        /\ req[p].user_id = req[q].user_id
        /\ req[p].user_id \in DOMAIN users
        /\ ProfileOf(req[p].user_data) # req[q].user
        /\ ProfileOf(users[req[p].user_id]) = req[q].user
        /\ users[req[p].user_id].coins = req[p].user_data.coins - 10
        /\ users[req[p].user_id].pizzaSlices = req[p].user_data.pizzaSlices + 1

(* C9: when a store call of the rebuild raises after the account update of *)
(* a Consume has been written (requests being handled one at a time), the  *)
(* update is not rolled back: the account keeps one slice fewer and one    *)
(* pizza eaten more than the request read, and the history record that was *)
(* appended.                                                               *)
RebuildFailed(p) ==
    /\ req[p].op = "log_pizza"
    /\ req[p].result = "StoreError"
    /\ req[p].pc \in {"stream", "set"}

NoRollback ==
    \A p \in Procs :
        RebuildFailed(p) =>
            LET id == req[p].user_id
                d  == req[p].user_data
            IN  /\ id \in DOMAIN users
                /\ users[id].pizzaSlices = d.pizzaSlices - 1
                /\ users[id].pizzasEaten = d.pizzasEaten + 1
                /\ history # <<>>
                /\ history[Len(history)].userId = id

\* the rebuild of a Consume has failed and the leaderboard still shows the
\* pizzasEaten the account had before
NoRollbackWitness ==
    \E p \in Procs :
        /\ RebuildFailed(p)
        /\ req[p].user_id \in DOMAIN users \cap DOMAIN leaderboard
        /\ leaderboard[req[p].user_id].pizzasEaten = req[p].user_data.pizzasEaten
        /\ users[req[p].user_id].pizzasEaten = req[p].user_data.pizzasEaten + 1

(* C10: requests being handled one at a time and no store call raising,    *)
(* the leaderboard never lags the ledger: whenever no request is being     *)
(* handled, every leaderboard entry whose account exists holds that        *)
(* account's pizzasEaten, and when a Consume has succeeded every live      *)
(* account has such an entry.                                              *)
NoLag ==
    /\ Quiet =>
           \A id \in DOMAIN leaderboard \cap DOMAIN users :
               leaderboard[id].pizzasEaten = users[id].pizzasEaten
    /\ \A p \in Procs :
           Ok(p, "log_pizza") =>
               \A id \in DOMAIN users :
                   /\ id \in DOMAIN leaderboard
                   /\ leaderboard[id].pizzasEaten = users[id].pizzasEaten

\* between requests, after two Consumes: an account that has eaten has its
\* entry, with its counter
NoLagWitness ==
    /\ Quiet
    /\ Len(history) >= 2
    /\ \E id \in DOMAIN leaderboard \cap DOMAIN users :
           /\ users[id].pizzasEaten >= 1
           /\ leaderboard[id].pizzasEaten = users[id].pizzasEaten

(* C11: with concurrent Consumes whose rebuilds interleave, the            *)
(* leaderboard reflects the latest state once all requests have completed: *)
(* when no request is being handled, the entry of every live account holds *)
(* the account's current pizzasEaten, and the ranks of the entries agree   *)
(* with the current counters.                                              *)
ReflectsLatest ==
    Quiet =>
        LET shown == DOMAIN users \cap DOMAIN leaderboard
        IN  /\ \A id \in shown :
                   leaderboard[id].pizzasEaten = users[id].pizzasEaten
            /\ \A i, j \in shown :
                   users[i].pizzasEaten > users[j].pizzasEaten
                       => leaderboard[i].rank < leaderboard[j].rank

(* C12: DeleteAccount removes the account record and nothing else: every   *)
(* step of a delete_user leaves every history record and every leaderboard *)
(* entry as it is, its successful end removes exactly its account, and on  *)
(* an absent account it ends NotFound and changes nothing; and no step of  *)
(* any request, a rebuild's included, removes a leaderboard entry.         *)
DeleteStep(p) ==
    LET id == req'[p].user_id
    IN  /\ history' = history /\ leaderboard' = leaderboard
        /\ IF req'[p].result = "ok"
           THEN users' = DocDelete(users, id)
           ELSE users' = users
        /\ req[p].op = "idle" =>
               (req'[p].result = "NotFound" <=> id \notin DOMAIN users)

DeleteNoCascade ==
    [][/\ \A p \in Procs : StepOf(p, "delete_user") => DeleteStep(p)
       /\ DOMAIN leaderboard \subseteq DOMAIN leaderboard'
      ]_vars

\* an account is deleted, a rebuild that no longer lists it is done (a live
\* account has the rank of the deleted one), and its entry is still there
DeleteNoCascadeWitness ==
    \E p \in Procs, d \in usedIds \ DOMAIN users, i \in DOMAIN users :
        /\ Ok(p, "log_pizza")
        /\ d \in DOMAIN leaderboard
        /\ i \in DOMAIN leaderboard
        /\ leaderboard[d].rank = leaderboard[i].rank
        /\ HistoryOf(d) # {}

(* C14: every account is created with coins = 500, pizzaSlices = 0 and    *)
(* pizzasEaten = 0 and the profile of the request, under an id that no     *)
(* existing account has, and create_user changes no other account, no      *)
(* history record and no leaderboard entry.                                *)
CreateStep(p) ==
    LET id == req'[p].user_id
    IN  /\ id \notin DOMAIN users
        /\ DOMAIN users' = DOMAIN users \cup {id}
        /\ users'[id].coins = 500
        /\ users'[id].pizzaSlices = 0
        /\ users'[id].pizzasEaten = 0
        /\ ProfileOf(users'[id]) = req'[p].user
        /\ \A i \in DOMAIN users : users'[i] = users[i]
        /\ history' = history /\ leaderboard' = leaderboard

CreateDefaults ==
    [][\A p \in Procs : StepOf(p, "create_user") => CreateStep(p)]_vars

\* an account has been created beside another one that has spent coins
CreateDefaultsWitness ==
    \E p \in Procs, i \in DOMAIN users :
        /\ Ok(p, "create_user")
        /\ req[p].user_id \in DOMAIN users
        /\ i # req[p].user_id
        /\ users[req[p].user_id].coins = 500
        /\ users[i].coins < 500

(* C15: the history log is append-only: every step leaves the records that *)
(* exist where and as they are, and the log grows only by one record at a  *)
(* time, appended by a step of a log_pizza for that request's account.     *)
AppendOnly ==
    [][/\ Len(history') >= Len(history)
       /\ \A i \in DOMAIN history : history'[i] = history[i]
       /\ history' # history =>
              /\ Len(history') = Len(history) + 1
              /\ \E p \in Procs :
                     /\ StepOf(p, "log_pizza")
                     /\ history'[Len(history')].userId = req[p].user_id
      ]_vars

\* an account with a history record has consumed again and has then been
\* deleted: both of its records are there
AppendOnlyWitness ==
    \E id \in usedIds \ DOMAIN users : Cardinality(HistoryOf(id)) >= 2

(* C16: the steps of one Consume come in this order (requests being       *)
(* handled one at a time): the account write, then the history record,     *)
(* then the leaderboard entries, then the success.  Before the account     *)
(* write the account is as it was read; from then on it holds one slice    *)
(* fewer and one pizza eaten more; the record is there exactly from the    *)
(* end of the append on; the account's entry shows the new counter no      *)
(* earlier than the loop of the rebuild and no later than the success; and *)
(* a request that ended NotFound or NoInventory ended at its first step,   *)
(* with the account and its records untouched.                             *)
ConsumeProgress(p) ==
    LET id == req[p].user_id
        d  == req[p].user_data
        pc == req[p].pc
        written  == pc \in {"add", "stream", "set", "return"}
        appended == pc \in {"stream", "set", "return"}
        shown == /\ id \in DOMAIN leaderboard
                 /\ leaderboard[id].pizzasEaten = d.pizzasEaten + 1
    IN  IF req[p].result \in {"NotFound", "NoInventory"}
        THEN /\ pc = "return"
             /\ req[p].result = "NotFound" <=> id \notin DOMAIN users
             /\ id \in DOMAIN users =>
                    /\ users[id] = d
                    /\ Cardinality(HistoryOf(id)) = d.pizzasEaten
        ELSE /\ id \in DOMAIN users
             /\ users[id] = IF written
                            THEN [d EXCEPT !.pizzaSlices = @ - 1,
                                           !.pizzasEaten = @ + 1]
                            ELSE d
             /\ Cardinality(HistoryOf(id)) =
                    IF appended THEN d.pizzasEaten + 1 ELSE d.pizzasEaten
             /\ shown => pc \in {"set", "return"}
             /\ req[p].result = "ok" => pc = "return" /\ shown

ConsumeOrder ==
    \A p \in Procs : req[p].op = "log_pizza" => ConsumeProgress(p)

\* a rebuild over two accounts is half done: the account is written, its
\* record appended, one entry is written, and no success is reported yet
ConsumeOrderWitness ==
    \E p \in Procs :
        /\ req[p].op = "log_pizza"
        /\ req[p].pc = "set"
        /\ req[p].rank = 2
        /\ req[p].result = "none"
        /\ users[req[p].user_id].pizzasEaten = req[p].user_data.pizzasEaten + 1
        /\ Cardinality(HistoryOf(req[p].user_id)) = req[p].user_data.pizzasEaten + 1

(* C17: conservation of value: in every reachable state, under any        *)
(* interleaving of Purchase and Consume, every existing account satisfies  *)
(* coins + 10 * (pizzaSlices + pizzasEaten) = 500.                         *)
Conservation ==
    \A id \in DOMAIN users :
        users[id].coins
            + 10 * (users[id].pizzaSlices + users[id].pizzasEaten) = 500

(* C18: while an account exists, no step of any execution, interleaved     *)
(* Purchases and Consumes included, lowers its pizzasEaten or raises its   *)
(* coins.                                                                  *)
Monotone ==
    [][\A id \in DOMAIN users \cap DOMAIN users' :
          /\ users'[id].pizzasEaten >= users[id].pizzasEaten
          /\ users'[id].coins <= users[id].coins]_vars

(* C19: for every existing account with no Consume in flight, the history  *)
(* records of the account are as many as its pizzasEaten, under any        *)
(* interleaving of Consumes of the account.                                *)
ConsumeInFlight(id) ==
    \E p \in Procs :
        Running(p) /\ req[p].op = "log_pizza" /\ req[p].user_id = id

HistoryMatchesEaten ==
    \A id \in DOMAIN users :
        ~ConsumeInFlight(id) =>
            Cardinality(HistoryOf(id)) = users[id].pizzasEaten

(* C20: a deleted account stays deleted: no step, the write of a Purchase, *)
(* a Consume or an UpdateProfile that read the account before its deletion *)
(* included, brings back the users document of an id that was handed out   *)
(* and is gone.                                                            *)
StaysDeleted ==
    [][\A id \in usedIds \ DOMAIN users : id \notin DOMAIN users']_vars

\* a request read the account, the account was deleted, and the request's
\* write was refused
StaysDeletedWitness ==
    \E p \in Procs :
        /\ req[p].op \in {"buy_pizza", "log_pizza", "update_user"}
        /\ req[p].pc = "update"
        /\ req[p].result = "StoreError"
        /\ req[p].user_id \in usedIds \ DOMAIN users

\* a rebuild is about to write the entry of an account that was deleted
\* after the rebuild's query
OrphanEntryPending ==
    \E p \in Procs :
        /\ Running(p) /\ req[p].op = "log_pizza" /\ req[p].pc = "set"
        /\ Head(req[p].stream).id \in usedIds \ DOMAIN users

====
